---- MODULE Spec2Model ----
(***************************************************************************)
(* Model of src/main.py: the Telegram conversation handlers               *)
(* (registration_router), the store they write (users, warehouses,        *)
(* user_warehouses) and the polling loop start_polling with               *)
(* check_coefficients_for_user and notify_user.                           *)
(*                                                                         *)
(* Numbers that may carry a fraction (thresholds, coefficients) are kept   *)
(* as a count of halves: 0.5 is 1, 1 is 2, 20 is 40, -1 is -2.             *)
(***************************************************************************)
EXTENDS Integers, Sequences, FiniteSets, Bags, TLC

VARIABLES
    users,        \* table users: telegram_id -> row, or NoUser
    warehouses,   \* table warehouses: set of [warehouse_id, name]
    subs,         \* table user_warehouses: set of <<user_id, warehouse_id>>
    fsm,          \* MemoryStorage: telegram_id -> FSM state ("None" is cleared)
    toggles,      \* warehouse_selected calls suspended between SELECT and write
    out,          \* what the bot did last: message sent and exception raised
    th,           \* the last toggles completed on one (user, warehouse) pair
    nEvents,      \* chat events dispatched so far
    pc,           \* start_polling: where the loop is
    loop_num,     \* start_polling: the tick counter
    snapshot,     \* start_polling: the rows loaded for this tick
    pending,      \* start_polling: rows the for loop has not reached yet
    nChecks,      \* check_coefficients_for_user calls of this tick, per user_id
    cur           \* check_coefficients_for_user: locals of the latest call

vars == <<users, warehouses, subs, fsm, toggles, out, th, nEvents,
          pc, loop_num, snapshot, pending, nChecks, cur>>

convVars == <<users, warehouses, subs, fsm, toggles, th, nEvents>>
pollVars == <<pc, loop_num, snapshot, pending, nChecks, cur>>

-----------------------------------------------------------------------------
(* Bounds *)

MaxTick == 1       \* ticks 0..MaxTick are run
MaxEvents == 5     \* chat events dispatched in one run
MaxInFlight == 2   \* warehouse_selected calls in flight at once

(* Inputs *)

Chats == {101, 102}
UserIds == 1..Cardinality(Chats)
Keys == {"k1", "k2"}
WarehouseIds == {7}
UpstreamOutcomes == {"200", "401", "neterr"}

\* texts sent while a threshold is awaited
ThresholdTexts == { <<"0", ".", "5">>, <<"2", "5">>, <<"-", "1">>, <<"a", "b">> }

\* the number carried by a set_polling_<n> token; the keyboard offers 5, 15, 30, 60
PollingTokens == {0, 1, 5}

\* the coefficient values of the answers get_coefficients may bring back with
\* status 200, in halves: [], [-1], [1, 0], [-1, 0, 1, 2], [1.5]
CoefAnswers == { <<>>, <<-2>>, <<2, 0>>, <<-2, 0, 2, 4>>, <<3>> }

\* warehouse names, as character sequences
NamePlain == <<"A">>
NameSC == <<"S", "C", "A">>
Directories ==
    { <<>>,
      << [ID |-> 7, name |-> NamePlain] >>,
      << [ID |-> 7, name |-> NameSC] >> }

-----------------------------------------------------------------------------
(* The store *)

\* a whole number, as a count of halves
Halves(n) == 2 * n

NoUser == [user_id |-> 0, api_key |-> "", polling_frequency |-> 0,
           notification_threshold |-> 0]

\* column defaults and the CHECK on notification_threshold (database.sql)
DefaultPollingFrequency == 5
DefaultNotificationThreshold == Halves(1)
ThresholdMin == Halves(0)
ThresholdMax == Halves(20)

Known(c) == users[c] # NoUser

\* UserIdOf with the telegram_id taken for the user_id when no row is found
UserIdOfOrTelegramId(c) == IF Known(c) THEN users[c].user_id ELSE c

\* (SELECT user_id FROM users WHERE telegram_id = $1); 0 stands for NULL
UserIdOf(c) == users[c].user_id

\* the next value of the users.user_id sequence
NextUserId == 1 + Cardinality({c \in Chats : Known(c)})

\* SELECT warehouse_id FROM user_warehouses WHERE user_id = uid
SelectedOf(uid) == {w \in WarehouseIds : <<uid, w>> \in subs}

\* UpsertUser with the ON CONFLICT clause lost: a second row takes the place
\* of the first
UpsertUserAlwaysInsert(c, key) ==
    [users EXCEPT ![c] = [user_id |-> NextUserId, api_key |-> key,
                          polling_frequency |-> DefaultPollingFrequency,
                          notification_threshold |-> DefaultNotificationThreshold]]

\* INSERT INTO users ... ON CONFLICT (telegram_id) DO UPDATE SET api_key = $2
UpsertUser(c, key) ==
    IF Known(c)
    THEN [users EXCEPT ![c].api_key = key]
    ELSE [users EXCEPT ![c] = [user_id |-> NextUserId, api_key |-> key,
                               polling_frequency |-> DefaultPollingFrequency,
                               notification_threshold |-> DefaultNotificationThreshold]]

\* marker in name (substring test); "S","C" stand for the two Cyrillic letters of the marker
RECURSIVE Contains(_, _)
Contains(name, marker) ==
    IF Len(name) < Len(marker) THEN FALSE
    ELSE IF SubSeq(name, 1, Len(marker)) = marker THEN TRUE
    ELSE Contains(Tail(name), marker)

ExclusionMarker == <<"S", "C">>

\* update_warehouses_in_db with the test on the name lost
RECURSIVE update_warehouses_in_db_unfiltered(_, _)
update_warehouses_in_db_unfiltered(table, data) ==
    IF data = <<>> THEN table
    ELSE LET w == Head(data)
         IN update_warehouses_in_db_unfiltered(
                {r \in table : r.warehouse_id # w.ID}
                    \cup {[warehouse_id |-> w.ID, name |-> w.name]},
                Tail(data))

\* update_warehouses_in_db with the ON CONFLICT clause lost: a plain INSERT
RECURSIVE update_warehouses_in_db_plain_insert(_, _)
update_warehouses_in_db_plain_insert(table, data) ==
    IF data = <<>> THEN table
    ELSE LET w == Head(data)
             next == IF Contains(w.name, ExclusionMarker)
                     THEN table
                     ELSE table \cup {[warehouse_id |-> w.ID, name |-> w.name]}
         IN update_warehouses_in_db_plain_insert(next, Tail(data))

\* the loop of update_warehouses_in_db: upsert each entry whose name is kept
RECURSIVE update_warehouses_in_db(_, _)
update_warehouses_in_db(table, data) ==
    IF data = <<>> THEN table
    ELSE LET w == Head(data)
             next == IF Contains(w.name, ExclusionMarker)
                     THEN table
                     ELSE {r \in table : r.warehouse_id # w.ID}
                          \cup {[warehouse_id |-> w.ID, name |-> w.name]}
         IN update_warehouses_in_db(next, Tail(data))

\* update_warehouses: the table after the call, by the upstream status
update_warehouses(status, data) ==
    IF status = "200" THEN update_warehouses_in_db(warehouses, data) ELSE warehouses

\* validate_api_key: response.status == 200
validate_api_key(status) == status = "200"

-----------------------------------------------------------------------------
(* float(message.text): <<TRUE, halves>> or <<FALSE, 0>> for ValueError *)

Digits == {"0", "1", "2", "3", "4", "5", "6", "7", "8", "9"}

DigitValue(d) ==
    CASE d = "0" -> 0 [] d = "1" -> 1 [] d = "2" -> 2 [] d = "3" -> 3
      [] d = "4" -> 4 [] d = "5" -> 5 [] d = "6" -> 6 [] d = "7" -> 7
      [] d = "8" -> 8 [] d = "9" -> 9

RECURSIVE DecimalValue(_)
DecimalValue(ds) ==
    IF ds = <<>> THEN 0
    ELSE 10 * DecimalValue(SubSeq(ds, 1, Len(ds) - 1)) + DigitValue(ds[Len(ds)])

AllDigits(ds) == ds # <<>> /\ \A i \in 1..Len(ds) : ds[i] \in Digits

ParseFloat(text) ==
    LET neg == text # <<>> /\ Head(text) = "-"
        body == IF neg THEN Tail(text) ELSE text
        dots == {i \in 1..Len(body) : body[i] = "."}
        sign == IF neg THEN -1 ELSE 1
    IN  IF dots = {}
        THEN IF AllDigits(body) THEN <<TRUE, sign * Halves(DecimalValue(body))>>
             ELSE <<FALSE, 0>>
        ELSE LET i == CHOOSE j \in dots : TRUE
                 whole == SubSeq(body, 1, i - 1)
                 frac == SubSeq(body, i + 1, Len(body))
             IN  IF Cardinality(dots) = 1 /\ AllDigits(whole) /\ frac \in {<<"0">>, <<"5">>}
                 THEN <<TRUE, sign * (Halves(DecimalValue(whole))
                                      + (IF frac = <<"5">> THEN 1 ELSE 0))>>
                 ELSE <<FALSE, 0>>

\* ThresholdAllowed with the upper end of the CHECK lost
ThresholdAllowedNoUpperEnd(t) == ThresholdMin <= t

\* the CHECK constraint on users.notification_threshold
ThresholdAllowed(t) == ThresholdMin <= t /\ t <= ThresholdMax

-----------------------------------------------------------------------------
(* Chat events.  Every handler is one step, except warehouse_selected,     *)
(* which is suspended between its SELECT and its INSERT or DELETE.         *)

Said(c, text) == [to |-> c, text |-> text, exc |-> "none"]
Raised(c, text, exc) == [to |-> c, text |-> text, exc |-> exc]

Dispatch == nEvents < MaxEvents /\ nEvents' = nEvents + 1

\* start_registration with the test on the users row lost: every /start asks
\* for a key
start_registration_unconditional(c) ==
    /\ Dispatch
    /\ out' = Said(c, "enter_api_key")
    /\ fsm' = [fsm EXCEPT ![c] = "entering_api_key"]
    /\ UNCHANGED <<users, warehouses, subs, toggles, th>>
    /\ UNCHANGED pollVars

\* Command('start')
start_registration(c) ==
    /\ Dispatch
    /\ IF Known(c)
       THEN /\ out' = Said(c, "already_registered")
            /\ fsm' = fsm
       ELSE /\ out' = Said(c, "enter_api_key")
            /\ fsm' = [fsm EXCEPT ![c] = "entering_api_key"]
    /\ UNCHANGED <<users, warehouses, subs, toggles, th>>
    /\ UNCHANGED pollVars

\* a text message in state entering_api_key
process_api_key(c, api_key, ping, status, data) ==
    /\ fsm[c] = "entering_api_key"
    /\ Dispatch
    /\ IF ping = "neterr"
       THEN /\ out' = Raised(c, "checking_key", "ClientError")
            /\ UNCHANGED <<users, warehouses, fsm>>
       ELSE IF validate_api_key(ping)
       THEN /\ users' = UpsertUser(c, api_key)
            /\ IF status = "neterr"
               THEN /\ out' = Raised(c, "key_saved", "ClientError")
                    /\ UNCHANGED <<warehouses, fsm>>
               ELSE /\ warehouses' = update_warehouses(status, data)
                    /\ fsm' = [fsm EXCEPT ![c] = "choosing_warehouses"]
                    /\ out' = Said(c, "key_saved")
       ELSE /\ out' = Said(c, "key_invalid")
            /\ UNCHANGED <<users, warehouses, fsm>>
    /\ UNCHANGED <<subs, toggles, th>>
    /\ UNCHANGED pollVars

\* INSERT INTO user_warehouses: the rows after it and the error it raises
InsertSubscription(uid, w) ==
    IF uid = 0 THEN [rows |-> subs, exc |-> "NotNullViolationError"]
    ELSE IF <<uid, w>> \in subs THEN [rows |-> subs, exc |-> "UniqueViolationError"]
    ELSE [rows |-> subs \cup {<<uid, w>>}, exc |-> "none"]

\* DELETE FROM user_warehouses WHERE user_id = uid AND warehouse_id = w
DeleteSubscription(uid, w) == [rows |-> subs \ {<<uid, w>>}, exc |-> "none"]

\* the states in which the keyboard of select_<id> buttons is on show
SelectionStates == {"choosing_warehouses", "editing_warehouses"}

\* warehouse_selected up to its SELECT: was the warehouse in selected_ids
warehouse_selected_read(c, w, k) ==
    /\ BagCardinality(toggles) < k
    /\ Dispatch
    /\ toggles' = toggles (+) SetToBag({[c |-> c, w |-> w, sel |-> fsm[c] \in SelectionStates,
                                         was |-> w \in SelectedOf(UserIdOf(c))]})
    /\ UNCHANGED <<users, warehouses, subs, fsm, out, th, pollVars>>

\* ToggleResult with the branch on selected_ids lost: every call inserts
ToggleResultAlwaysInsert(e) == InsertSubscription(UserIdOf(e.c), e.w)

\* the write warehouse_selected does for one suspended call
ToggleResult(e) ==
    IF e.was THEN DeleteSubscription(UserIdOf(e.c), e.w)
    ELSE InsertSubscription(UserIdOf(e.c), e.w)

\* warehouse_selected from its branch on selected_ids to its end
warehouse_selected_write(e) ==
    /\ BagIn(e, toggles)
    /\ toggles' = toggles (-) SetToBag({e})
    /\ LET r == ToggleResult(e)
           uid == UserIdOf(e.c)
           rec == [c |-> e.c, w |-> e.w, uid |-> uid, sel |-> e.sel,
                   pre |-> SelectedOf(uid),
                   post |-> {w \in WarehouseIds : <<uid, w>> \in r.rows},
                   s0 |-> fsm[e.c], s1 |-> fsm'[e.c], exc |-> r.exc]
       IN  /\ subs' = r.rows
           /\ fsm' = fsm
           /\ out' = Raised(e.c, IF e.was THEN "warehouse_removed" ELSE "warehouse_added",
                            r.exc)
           /\ th' = IF th # <<>> /\ th[Len(th)].c = e.c /\ th[Len(th)].w = e.w
                    THEN <<th[Len(th)], rec>>
                    ELSE <<rec>>
    /\ UNCHANGED <<users, warehouses, nEvents, pollVars>>

\* callback page_<n>
change_page_callback(c) ==
    /\ Dispatch
    /\ out' = Said(c, "page")
    /\ UNCHANGED <<users, warehouses, subs, fsm, toggles, th, pollVars>>

\* callback done
finish_warehouse_selection(c) ==
    /\ Dispatch
    /\ fsm' = [fsm EXCEPT ![c] = "None"]
    /\ out' = Said(c, "setup_done")
    /\ UNCHANGED <<users, warehouses, subs, toggles, th, pollVars>>

\* Command('menu'); process_api_key is registered before it
show_main_menu(c) ==
    /\ fsm[c] # "entering_api_key"
    /\ Dispatch
    /\ out' = Said(c, "main_menu")
    /\ UNCHANGED <<users, warehouses, subs, fsm, toggles, th, pollVars>>

\* callback settings
settings_menu(c) ==
    /\ Dispatch
    /\ out' = Said(c, IF Known(c) THEN "settings" ELSE "settings_not_found")
    /\ UNCHANGED <<users, warehouses, subs, fsm, toggles, th, pollVars>>

\* callback edit_warehouses
edit_warehouses(c) ==
    /\ Dispatch
    /\ fsm' = [fsm EXCEPT ![c] = "editing_warehouses"]
    /\ out' = Said(c, "choose_warehouses")
    /\ UNCHANGED <<users, warehouses, subs, toggles, th, pollVars>>

\* callback edit_polling_frequency
edit_polling_frequency(c) ==
    /\ Dispatch
    /\ out' = Said(c, "choose_frequency")
    /\ UNCHANGED <<users, warehouses, subs, fsm, toggles, th, pollVars>>

\* callback set_polling_<n>
process_new_polling_frequency(c, n) ==
    /\ Dispatch
    /\ users' = IF Known(c) THEN [users EXCEPT ![c].polling_frequency = n] ELSE users
    /\ out' = Said(c, "frequency_updated")
    /\ UNCHANGED <<warehouses, subs, fsm, toggles, th, pollVars>>

\* callback edit_threshold
edit_notification_threshold(c) ==
    /\ Dispatch
    /\ fsm' = [fsm EXCEPT ![c] = "editing_notification_threshold"]
    /\ out' = Said(c, "enter_threshold")
    /\ UNCHANGED <<users, warehouses, subs, toggles, th, pollVars>>

\* a text message in state editing_notification_threshold
process_new_notification_threshold(c, text) ==
    /\ fsm[c] = "editing_notification_threshold"
    /\ Dispatch
    /\ LET f == ParseFloat(text)
       IN  IF f[1] /\ (ThresholdAllowed(f[2]) \/ ~Known(c))
           THEN /\ users' = IF Known(c)
                            THEN [users EXCEPT ![c].notification_threshold = f[2]]
                            ELSE users
                /\ out' = Said(c, "threshold_updated")
           ELSE /\ users' = users
                /\ out' = Said(c, "threshold_invalid")
    /\ fsm' = fsm
    /\ UNCHANGED <<warehouses, subs, toggles, th, pollVars>>

\* callback edit_api_key
edit_api_key(c) ==
    /\ Dispatch
    /\ fsm' = [fsm EXCEPT ![c] = "editing_api_key"]
    /\ out' = Said(c, "enter_new_api_key")
    /\ UNCHANGED <<users, warehouses, subs, toggles, th, pollVars>>

\* process_new_api_key with the key stored before it is validated
process_new_api_key_unchecked(c, new_api_key, ping) ==
    /\ fsm[c] = "editing_api_key"
    /\ Dispatch
    /\ users' = IF Known(c) THEN [users EXCEPT ![c].api_key = new_api_key] ELSE users
    /\ IF ping = "neterr"
       THEN out' = Raised(c, "none", "ClientError")
       ELSE IF validate_api_key(ping)
       THEN out' = Said(c, "key_updated")
       ELSE out' = Said(c, "new_key_invalid")
    /\ fsm' = fsm
    /\ UNCHANGED <<warehouses, subs, toggles, th, pollVars>>

\* a text message in state editing_api_key
process_new_api_key(c, new_api_key, ping) ==
    /\ fsm[c] = "editing_api_key"
    /\ Dispatch
    /\ IF ping = "neterr"
       THEN /\ out' = Raised(c, "none", "ClientError")
            /\ users' = users
       ELSE IF validate_api_key(ping)
       THEN /\ users' = IF Known(c) THEN [users EXCEPT ![c].api_key = new_api_key]
                        ELSE users
            /\ out' = Said(c, "key_updated")
       ELSE /\ out' = Said(c, "new_key_invalid")
            /\ users' = users
    /\ fsm' = fsm
    /\ UNCHANGED <<warehouses, subs, toggles, th, pollVars>>

-----------------------------------------------------------------------------
(* The polling loop *)

NoCheck == [user_id |-> 0, api_key |-> "", threshold |-> 0, warehouse_ids |-> {},
            coefficients |-> <<>>, good |-> <<>>, phase |-> "none"]

\* SELECT user_id, api_key, polling_frequency, notification_threshold FROM users
SelectUsers == {users[c] : c \in {x \in Chats : Known(x)}}

\* SELECT telegram_id FROM users WHERE user_id = uid
TelegramIdOf(uid) == CHOOSE c \in Chats : users[c].user_id = uid

\* int(x): truncation toward zero, of a count of halves
IntOf(h) == IF h >= 0 THEN h \div 2 ELSE -((-h) \div 2)

\* -1 < int(coefficient['coefficient']) <= threshold
IsGood(v, threshold) == -1 < IntOf(v) /\ Halves(IntOf(v)) <= threshold

\* the loop of check_coefficients_for_user that builds good_coefficients
RECURSIVE good_coefficients(_, _)
good_coefficients(coefficients, threshold) ==
    IF coefficients = <<>> THEN <<>>
    ELSE (IF IsGood(Head(coefficients), threshold) THEN <<Head(coefficients)>> ELSE <<>>)
         \o good_coefficients(Tail(coefficients), threshold)

\* loop_num % user['polling_frequency'] == 0
Due(t, row) == t % row.polling_frequency = 0

\* PollLoad with the SELECT done for the first tick only
PollLoadFirstTickOnly ==
    /\ pc = "load"
    /\ snapshot' = IF loop_num = 0 THEN SelectUsers ELSE snapshot
    /\ pending' = {r.user_id : r \in snapshot'}
    /\ pc' = "loop"
    /\ UNCHANGED <<loop_num, nChecks, cur, out>>
    /\ UNCHANGED convVars

\* start_polling: the SELECT at the top of the while loop
PollLoad ==
    /\ pc = "load"
    /\ snapshot' = SelectUsers
    /\ pending' = {r.user_id : r \in SelectUsers}
    /\ pc' = "loop"
    /\ UNCHANGED <<loop_num, nChecks, cur, out>>
    /\ UNCHANGED convVars

\* BeginCheck with the early return on an empty warehouse list lost
BeginCheckAlwaysFetch(row) ==
    /\ nChecks' = [nChecks EXCEPT ![row.user_id] = @ + 1]
    /\ cur' = [NoCheck EXCEPT !.user_id = row.user_id, !.api_key = row.api_key,
                              !.threshold = row.notification_threshold,
                              !.warehouse_ids = SelectedOf(row.user_id),
                              !.phase = "fetching"]
    /\ pc' = "fetching"

\* check_coefficients_for_user up to its call of get_coefficients
BeginCheck(row) ==
    LET whs == SelectedOf(row.user_id)
        call == [NoCheck EXCEPT !.user_id = row.user_id, !.api_key = row.api_key,
                                !.threshold = row.notification_threshold,
                                !.warehouse_ids = whs]
    IN  /\ nChecks' = [nChecks EXCEPT ![row.user_id] = @ + 1]
        /\ IF whs = {}
           THEN /\ cur' = [call EXCEPT !.phase = "no_warehouses"]
                /\ pc' = "loop"
           ELSE /\ cur' = [call EXCEPT !.phase = "fetching"]
                /\ pc' = "fetching"

\* start_polling: one pass of the for loop, up to the first upstream call
PollStep ==
    /\ pc = "loop"
    /\ \E row \in snapshot :
         /\ row.user_id \in pending
         /\ pending' = pending \ {row.user_id}
         /\ IF row.polling_frequency = 0
            THEN /\ pc' = "crashed"
                 /\ UNCHANGED <<nChecks, cur>>
            ELSE IF Due(loop_num, row)
            THEN BeginCheck(row)
            ELSE UNCHANGED <<pc, nChecks, cur>>
    /\ UNCHANGED <<loop_num, snapshot, out>>
    /\ UNCHANGED convVars

\* FetchReturn with a refused request answered by dropping the user's
\* user_warehouses rows
FetchReturnDropsRows ==
    /\ pc = "fetching"
    /\ \E status \in UpstreamOutcomes :
         IF status = "200"
         THEN \E data \in CoefAnswers :
                /\ cur' = [cur EXCEPT !.coefficients = data,
                                      !.good = good_coefficients(data, cur.threshold),
                                      !.phase = "notified"]
                /\ out' = Said(TelegramIdOf(cur.user_id), "notification")
                /\ pc' = "loop"
                /\ subs' = subs
         ELSE /\ cur' = [cur EXCEPT !.phase = "failed"]
              /\ pc' = "crashed"
              /\ out' = out
              /\ subs' = {r \in subs : r[1] # cur.user_id}
    /\ UNCHANGED <<loop_num, snapshot, pending, nChecks>>
    /\ UNCHANGED <<users, warehouses, fsm, toggles, th, nEvents>>

\* get_coefficients returns or raises; the filter; notify_user
FetchReturn ==
    /\ pc = "fetching"
    /\ \E status \in UpstreamOutcomes :
         IF status = "200"
         THEN \E data \in CoefAnswers :
                /\ cur' = [cur EXCEPT !.coefficients = data,
                                      !.good = good_coefficients(data, cur.threshold),
                                      !.phase = "notified"]
                /\ out' = Said(TelegramIdOf(cur.user_id), "notification")
                /\ pc' = "loop"
         ELSE /\ cur' = [cur EXCEPT !.phase = "failed"]
              /\ pc' = "crashed"
              /\ out' = out
    /\ UNCHANGED <<loop_num, snapshot, pending, nChecks>>
    /\ UNCHANGED convVars

\* start_polling: the for loop is over, asyncio.sleep(60) begins
PollSleep ==
    /\ pc = "loop"
    /\ pending = {}
    /\ pc' = "sleep"
    /\ UNCHANGED <<loop_num, snapshot, pending, nChecks, cur, out>>
    /\ UNCHANGED convVars

\* start_polling: the sleep is over, loop_num += 1
PollWake ==
    /\ pc = "sleep"
    /\ loop_num < MaxTick
    /\ loop_num' = loop_num + 1
    /\ pc' = "load"
    /\ snapshot' = {}
    /\ nChecks' = [u \in UserIds |-> 0]
    /\ cur' = NoCheck
    /\ UNCHANGED <<pending, out>>
    /\ UNCHANGED convVars

-----------------------------------------------------------------------------
(* Specifications *)

Init ==
    /\ users = [c \in Chats |-> NoUser]
    /\ warehouses = {}
    /\ subs = {}
    /\ fsm = [c \in Chats |-> "None"]
    /\ toggles = EmptyBag
    /\ out = Said(0, "none")
    /\ th = <<>>
    /\ nEvents = 0
    /\ pc = "load"
    /\ loop_num = 0
    /\ snapshot = {}
    /\ pending = {}
    /\ nChecks = [u \in UserIds |-> 0]
    /\ cur = NoCheck

\* the chat events of the users in chats, with at most k warehouse_selected
\* calls in flight
Conversation(chats, k) ==
    \E c \in chats :
        \/ start_registration(c)
        \/ \E key \in Keys, ping \in UpstreamOutcomes, status \in UpstreamOutcomes,
              data \in Directories : process_api_key(c, key, ping, status, data)
        \/ \E w \in WarehouseIds : warehouse_selected_read(c, w, k)
        \/ \E e \in BagToSet(toggles) : e.c = c /\ warehouse_selected_write(e)
        \/ change_page_callback(c)
        \/ finish_warehouse_selection(c)
        \/ show_main_menu(c)
        \/ settings_menu(c)
        \/ edit_warehouses(c)
        \/ edit_polling_frequency(c)
        \/ \E n \in PollingTokens : process_new_polling_frequency(c, n)
        \/ edit_notification_threshold(c)
        \/ \E text \in ThresholdTexts : process_new_notification_threshold(c, text)
        \/ edit_api_key(c)
        \/ \E key \in Keys, ping \in UpstreamOutcomes : process_new_api_key(c, key, ping)

Polling == PollLoad \/ PollStep \/ FetchReturn \/ PollSleep \/ PollWake

Next == Conversation(Chats, MaxInFlight) \/ Polling

Spec == Init /\ [][Next]_vars

\* the same program with one user, whose chat events arrive one after another
SoloChats == {CHOOSE c \in Chats : \A d \in Chats : c <= d}

SoloNext == Conversation(SoloChats, 1) \/ Polling

SoloSpec == Init /\ [][SoloNext]_vars

-----------------------------------------------------------------------------
(* The catalog under refreshes alone: update_warehouses called again and   *)
(* again, from the empty table, with directories of up to two entries      *)

CatalogIds == {7, 8, 9}
NameOther == <<"B">>
NameInnerSC == <<"A", "S", "C">>
CatalogNames == {NamePlain, NameOther, NameSC, NameInnerSC}
CatalogEntries == [ID : CatalogIds, name : CatalogNames]
CatalogDirectories ==
    {<<>>} \cup {<<e>> : e \in CatalogEntries}
           \cup {<<e, f>> : e \in CatalogEntries, f \in CatalogEntries}

\* one call of update_warehouses, as the registration of one more user makes it
update_warehouses_call(status, data) ==
    /\ Dispatch
    /\ warehouses' = update_warehouses(status, data)
    /\ UNCHANGED <<users, subs, fsm, toggles, out, th, pollVars>>

CatalogNext ==
    \E status \in UpstreamOutcomes, data \in CatalogDirectories :
        update_warehouses_call(status, data)

CatalogSpec == Init /\ [][CatalogNext]_vars

-----------------------------------------------------------------------------
(* Claims *)

\* the rows of the tick whose frequency makes them due at tick t
DueRows(t) == {r \in snapshot : r.polling_frequency # 0 /\ Due(t, r)}

\* C1: when one due user's check fails during a tick, every other user due in
\* that tick has been checked or is still going to be: the failure does not
\* abort the tick.
C1_FailureDoesNotAbortTick ==
    cur.phase = "failed" =>
        \A r \in DueRows(loop_num) :
            r.user_id # cur.user_id =>
                \/ nChecks[r.user_id] > 0
                \/ (r.user_id \in pending /\ pc # "crashed")

\* every row of the tick has a frequency the due test is defined for
FrequenciesDefined == \A r \in snapshot : r.polling_frequency # 0

\* C2: the polling loop never terminates on its own, whatever the checks of
\* a tick did (stated for the ticks whose frequencies are all non-zero).
C2_SchedulerNeverTerminates == FrequenciesDefined => pc # "crashed"

\* C3: when the for loop of a tick has ended, a row of the tick was checked
\* exactly once if its frequency divides the tick number, and not at all
\* otherwise (stated for the ticks whose frequencies are all non-zero).
C3_CheckedIffDue ==
    (pc \in {"sleep", "crashed"} /\ FrequenciesDefined) =>
        \A r \in snapshot :
            nChecks[r.user_id] = (IF Due(loop_num, r) THEN 1 ELSE 0)

\* C4: while one user's check is suspended in its upstream call, the check of
\* another user that is due in this tick can start.
C4_SlowUserDoesNotBlock ==
    (pc = "fetching" /\ \E r \in DueRows(loop_num) : r.user_id \in pending)
        => ENABLED PollStep

\* qualifies(v, T): -1 < v <= T, on counts of halves
Qualifies(v, threshold) == Halves(-1) < v /\ v <= threshold

QualifyingSubsequence(coefficients, threshold) ==
    SelectSeq(coefficients, LAMBDA v : Qualifies(v, threshold))

\* C5: the sequence handed to notify_user is exactly the subsequence of the
\* returned coefficients with -1 < v <= threshold, in the order returned.
C5_NotifierGetsQualifying ==
    cur.phase = "notified" =>
        cur.good = QualifyingSubsequence(cur.coefficients, cur.threshold)

\* C6: a check sends a notification only if some returned coefficient
\* qualifies.
C6_NotifyOnlyIfNonEmpty == cur.phase = "notified" => cur.good # <<>>

\* two toggles of one registered user on one warehouse, completed one after
\* the other
TogglePair ==
    /\ Len(th) = 2
    /\ th[1].uid # 0
    /\ th[2].uid = th[1].uid

\* C7: two toggles of the same (user, warehouse) pair that are in flight
\* together leave the subscriptions as they were before both, and raise no
\* constraint violation.
C7_RacingTogglesSerialized ==
    TogglePair => /\ th[2].post = th[1].pre
                  /\ th[1].exc = "none"
                  /\ th[2].exc = "none"

\* the rows a toggle added or removed
RowsChanged(r) == (r.pre \ r.post) \cup (r.post \ r.pre)

\* C8: for a registered user, each toggle of warehouse w changes exactly the
\* row of w and leaves the FSM state alone; on an empty subscription set it
\* leaves exactly the row of w; a second toggle of w in sequence brings the
\* subscription set back, to no rows when it started empty.
C8_ToggleTwiceRestores ==
    /\ \A i \in 1..Len(th) :
         th[i].uid # 0 =>
             /\ RowsChanged(th[i]) = {th[i].w}
             /\ th[i].s1 = th[i].s0
             /\ (th[i].pre = {} => th[i].post = {th[i].w})
    /\ TogglePair => th[2].post = th[1].pre

C8_Witness ==
    /\ TogglePair
    /\ th[1].pre = {}
    /\ Cardinality(th[1].post) = 1
    /\ th[2].post = {}
    /\ subs = {}

\* a chat event was dispatched in this step and the bot answered c with text
Answered(c, text) == nEvents' = nEvents + 1 /\ out' = Said(c, text)

\* C9: a text whose credential fails validation changes neither the FSM state
\* nor the store, in entering_api_key (no users row appears) and in
\* editing_api_key (the stored api_key stays).
C9_RejectedKeyChangesNothing ==
    [][\A c \in Chats :
          /\ Answered(c, "key_invalid")
               => /\ UNCHANGED <<users, warehouses, subs, fsm>>
                  /\ fsm[c] = "entering_api_key"
          /\ Answered(c, "new_key_invalid")
               => /\ UNCHANGED <<users, warehouses, subs, fsm>>
                  /\ fsm[c] = "editing_api_key"]_vars

C9_Witness ==
    \E c \in Chats :
        /\ out = Said(c, "new_key_invalid")
        /\ Known(c)
        /\ fsm[c] = "editing_api_key"

\* C10: after a threshold text of a registered user was accepted, the FSM state of the user is
\* cleared, so the next text is not taken as a threshold.
C10_ThresholdEditReturnsToIdle ==
    \A c \in Chats :
        (out = Said(c, "threshold_updated") /\ Known(c)) => fsm[c] = "None"

\* C11: after a new key of a registered user passed validation and was stored,
\* the FSM state of the user is cleared, so the next text is not taken as a key.
C11_ApiKeyEditReturnsToIdle ==
    \A c \in Chats :
        (out = Said(c, "key_updated") /\ Known(c)) => fsm[c] = "None"

\* the numbers on the buttons of edit_polling_frequency
KeyboardFrequencies == {5, 15, 30, 60}

\* C12: every stored polling_frequency that is at least 1 is one of the
\* numbers the keyboard offers: no set_polling_<n> token stores another number.
C12_FrequencyFromKeyboard ==
    \A c \in Chats :
        (Known(c) /\ users[c].polling_frequency >= 1)
            => users[c].polling_frequency \in KeyboardFrequencies

\* a text float() refuses, or whose value is outside [0, 20]
BadThresholdText(text) ==
    LET f == ParseFloat(text)
    IN  ~f[1] \/ f[2] < Halves(0) \/ f[2] > Halves(20)

\* C13: the stored notification_threshold of every user is within [0, 20] in
\* every state; a text of a registered user in editing_notification_threshold
\* that is no number or is outside [0, 20] is answered with the rejection,
\* changes no users row and leaves the FSM state as it was.
C13_ThresholdWithinBounds ==
    /\ [](\A c \in Chats :
            Known(c) => /\ Halves(0) <= users[c].notification_threshold
                        /\ users[c].notification_threshold <= Halves(20))
    /\ [][\A c \in Chats :
            (Known(c) /\ fsm[c] = "editing_notification_threshold"
                      /\ nEvents' = nEvents + 1 /\ out'.to = c) =>
                \A text \in ThresholdTexts :
                    (BadThresholdText(text) /\ process_new_notification_threshold(c, text))
                        => /\ out' = Said(c, "threshold_invalid")
                           /\ users' = users
                           /\ fsm' = fsm
                           /\ fsm[c] = "editing_notification_threshold"]_vars

C13_Witness ==
    \E c \in Chats :
        /\ Known(c)
        /\ out = Said(c, "threshold_invalid")
        /\ fsm[c] = "editing_notification_threshold"
        /\ users[c].notification_threshold = ParseFloat(<<"0", ".", "5">>)[2]

C15_StartWritesNothing ==
    [][\A c \in Chats :
          start_registration(c) =>
              /\ UNCHANGED <<users, warehouses, subs>>
              /\ IF Known(c)
                 THEN /\ fsm' = fsm
                      /\ out' = Said(c, "already_registered")
                 ELSE /\ fsm' = [fsm EXCEPT ![c] = "entering_api_key"]
                      /\ out' = Said(c, "enter_api_key")]_vars

C15_Witness ==
    \E c \in Chats :
        /\ out = Said(c, "already_registered")
        /\ Known(c)
        /\ fsm[c] = "None"
        /\ nEvents > 2

\* C16: every user_warehouses row carries the user_id of a users row, and
\* that row holds a key; the api_key of a users row is only ever set by a step
\* of process_api_key or process_new_api_key in which the ping endpoint
\* answered 200 for that key; and the write of a warehouse_selected call from
\* a chat without a users row leaves user_warehouses as it was.
C16_SubscriptionsHaveUsers ==
    /\ [](\A s \in subs :
            \E c \in Chats : /\ users[c] # NoUser
                             /\ users[c].user_id = s[1]
                             /\ users[c].api_key \in Keys)
    /\ [][\A c \in Chats :
            users'[c].api_key # users[c].api_key =>
                \E key \in Keys :
                    /\ users'[c].api_key = key
                    /\ \/ \E status \in UpstreamOutcomes, data \in Directories :
                              process_api_key(c, key, "200", status, data)
                       \/ process_new_api_key(c, key, "200")]_vars
    /\ [][\A e \in BagToSet(toggles) :
            (users[e.c] = NoUser /\ warehouse_selected_write(e)) => subs' = subs]_vars

C16_Witness ==
    /\ th # <<>>
    /\ th[Len(th)].uid = 0
    /\ users[th[Len(th)].c] = NoUser
    /\ th[Len(th)].exc = "NotNullViolationError"
    /\ subs = {}

\* C17: a check that found no user_warehouses rows for its user has returned
\* without a request to the coefficients endpoint, and every request,
\* notification or failed request belongs to a check that found at least one
\* row.
C17_EmptySubscriptionsNoFetch ==
    /\ cur.phase = "no_warehouses" => (cur.warehouse_ids = {} /\ pc # "fetching")
    /\ cur.phase \in {"fetching", "notified", "failed"} => cur.warehouse_ids # {}
    /\ pc = "fetching" => cur.phase = "fetching"

C17_Witness ==
    /\ cur.phase = "no_warehouses"
    /\ cur.user_id \in UserIds
    /\ nChecks[cur.user_id] = 1
    /\ SelectedOf(cur.user_id) = {}
    /\ out.text # "notification"
    /\ pc = "sleep"

\* the two letters of the marker stand side by side somewhere in name
HasMarker(name) ==
    \E i \in 1..(Len(name) - 1) : name[i] = "S" /\ name[i + 1] = "C"

\* C18: from the empty table, after any refreshes with any directories (an id
\* whose name gains or loses the marker between refreshes included), no row
\* of warehouses has a name that holds the marker.
C18_NoMarkerInCatalog == \A r \in warehouses : ~HasMarker(r.name)

C18_Witness ==
    /\ nEvents >= 2
    /\ [warehouse_id |-> 7, name |-> NamePlain] \in warehouses
    /\ update_warehouses("200", << [ID |-> 7, name |-> NameSC] >>) = warehouses
    /\ \A r \in warehouses : r.name \in CatalogNames

\* C19: warehouses holds one row per warehouse_id; a refresh of it with any
\* directory, done a second time with the same directory, gives the rows the
\* first gave; and every warehouse_id it held is still held after a refresh.
C19_RefreshIdempotent ==
    /\ \A r1, r2 \in warehouses : r1.warehouse_id = r2.warehouse_id => r1 = r2
    /\ \A data \in CatalogDirectories :
          LET once == update_warehouses_in_db(warehouses, data)
              twice == update_warehouses_in_db(once, data)
          IN  /\ twice = once
              /\ \A r \in warehouses : \E q \in once : q.warehouse_id = r.warehouse_id

C19_Witness ==
    /\ nEvents >= 2
    /\ \E data \in CatalogDirectories :
          /\ Cardinality(update_warehouses_in_db({}, data)) = 2
          /\ update_warehouses_in_db({}, data) \subseteq warehouses
          /\ update_warehouses_in_db(warehouses, data) = warehouses
          /\ Cardinality(warehouses) > 2

\* C20: a select_<id> token of a registered user, for a warehouse of the
\* catalog, that arrives and is handled while the FSM state of the user is
\* cleared or is editing_notification_threshold adds no user_warehouses row,
\* removes none and leaves the FSM state as it was.
C20_ToggleOutsideSelectionIsNoOp ==
    \A i \in 1..Len(th) :
        ( /\ th[i].uid # 0
          /\ ~th[i].sel
          /\ th[i].s0 \in {"None", "editing_notification_threshold"}
          /\ \E r \in warehouses : r.warehouse_id = th[i].w )
            => /\ th[i].post = th[i].pre
               /\ th[i].s1 = th[i].s0

\* C21: the rows a tick works with are the users table as it is when the
\* tick begins, so they hold every write committed before that; they are
\* replaced at the start of every tick and at no other time; every check of
\* the tick is decided due by the polling_frequency of its row, is given the
\* api_key and notification_threshold of its row and the user_warehouses rows
\* the store holds when the check begins; and a row passed over was not due
\* by its polling_frequency.
C21_NextTickUsesWrittenValues ==
    [][/\ (pc = "load" /\ pc' = "loop")
            => snapshot' = {users[c] : c \in {x \in Chats : users[x] # NoUser}}
       /\ snapshot' # snapshot => (pc = "load" \/ pc' = "load")
       /\ \A u \in UserIds :
            nChecks'[u] = nChecks[u] + 1 =>
                \E row \in snapshot :
                    /\ row.user_id = u
                    /\ loop_num % row.polling_frequency = 0
                    /\ cur'.user_id = u
                    /\ cur'.api_key = row.api_key
                    /\ cur'.threshold = row.notification_threshold
                    /\ cur'.warehouse_ids = {w \in WarehouseIds : <<u, w>> \in subs}
       /\ \A u \in pending \ pending' :
            (pc' = "loop" /\ nChecks'[u] = nChecks[u]) =>
                \E row \in snapshot :
                    /\ row.user_id = u
                    /\ loop_num % row.polling_frequency # 0]_vars

C21_Witness ==
    /\ loop_num = 1
    /\ cur.phase = "fetching"
    /\ cur.warehouse_ids # {}
    /\ \E row \in snapshot :
          /\ row.user_id = cur.user_id
          /\ row.polling_frequency = 1
          /\ row.api_key = cur.api_key
          /\ nChecks[row.user_id] = 1

\* C22: a step of the polling loop, of a check or of the notifier changes no
\* row of users, warehouses or user_warehouses, whether the request to the
\* coefficients endpoint succeeded or failed.
C22_PollingLeavesStore == [][Polling => UNCHANGED <<users, warehouses, subs>>]_vars

C22_Witness ==
    /\ cur.phase = "failed"
    /\ pc = "crashed"
    /\ cur.warehouse_ids # {}
    /\ SelectedOf(cur.user_id) = cur.warehouse_ids
    /\ \E c \in Chats : users[c].user_id = cur.user_id /\ users[c].api_key = cur.api_key

====
